---- MODULE Spec2Model ----
(***************************************************************************)
(* Model of the multi-output booster binding                               *)
(* (python-package/src/multi_output.rs): a collection of per-output        *)
(* boosters under one shared configuration, with fit, predict, metadata    *)
(* and persistence.  The binding delegates to the perpetual_rs crate; the  *)
(* crate-side operators below (Crate..., Engine..., Matrix_new, ...) are   *)
(* modelled from the written specification of that crate.                  *)
(***************************************************************************)
EXTENDS Integers, Sequences, FiniteSets, TLC

VARIABLES
    booster,   \* the pyclass field `booster`: the crate's MultiOutputBooster
    files,     \* the file system: path -> document written by save_booster
    last,      \* the last completed call: operation, arguments, outcome
    calls      \* number of calls made so far by a budgeted caller

vars == <<booster, files, last, calls>>

\* The same, with the operation and the success of the last call first: a step
\* changes one exactly when it changes the other
steps == <<last.op, last.ok, booster, files, last, calls>>

----------------------------------------------------------------------------
(* Bounds of the model *)

MaxOutputs == 2
MaxRows == 2
MaxTrees == 2
MaxCalls == 3

----------------------------------------------------------------------------
(* Values *)

None == <<>>
Some(x) == <<x>>
Unit == "()"

Ok(v) == [ok |-> TRUE, val |-> v]
Err(e) == [ok |-> FALSE, err |-> e]

\* Objective names accepted by serde_plain for perpetual_rs::objective::Objective
ObjectiveNames == {"LogLoss", "SquaredLoss"}
\* MissingNodeTreatment names accepted by serde_plain
TreatmentNames == {"AssignToParent", "AverageLeafWeight"}

\* Strings a caller may pass where an enum name is expected
ObjectiveInputs == ObjectiveNames \cup {"logloss"}
TreatmentInputs == TreatmentNames \cup {"Average"}

\* Feature indices used in constraint maps and feature sets
Features == {0}
\* Python dicts a caller may pass as monotone constraints: int -> int
ConstraintInputs ==
    UNION {[D -> {-1, 0, 1, 2}] : D \in SUBSET Features} \cup {[k \in {-1} |-> 1]}

ThreadInputs == {None, Some(1)}
MissingInputs == {"NaN", "0.0"}
FeatureSetInputs == SUBSET Features
LogInputs == {0, 1}

----------------------------------------------------------------------------
(* Conversions at the binding boundary *)

\* serde_plain::from_str::<Objective>
from_str_Objective(s) ==
    CASE s = "LogLoss" -> Ok("Objective::LogLoss")
      [] s = "SquaredLoss" -> Ok("Objective::SquaredLoss")
      [] OTHER -> Err("unknown variant")

\* serde_plain::to_string::<Objective>
to_string_Objective(o) ==
    CASE o = "Objective::LogLoss" -> "LogLoss"
      [] o = "Objective::SquaredLoss" -> "SquaredLoss"

\* serde_plain::from_str::<MissingNodeTreatment>
from_str_MissingNodeTreatment(s) ==
    CASE s = "AssignToParent" -> Ok("MissingNodeTreatment::AssignToParent")
      [] s = "AverageLeafWeight" -> Ok("MissingNodeTreatment::AverageLeafWeight")
      [] OTHER -> Err("unknown variant")

\* serde_plain::to_string::<MissingNodeTreatment>
to_string_MissingNodeTreatment(t) ==
    CASE t = "MissingNodeTreatment::AssignToParent" -> "AssignToParent"
      [] t = "MissingNodeTreatment::AverageLeafWeight" -> "AverageLeafWeight"

\* Extraction of a Python dict as HashMap<usize, i8>: a negative key is no usize
ExtractConstraintDict(d) ==
    IF \A k \in DOMAIN d : k >= 0 THEN Ok(d) ELSE Err("OverflowError")

\* utils::int_map_to_constraint_map: -1, 1, 0 name a Constraint, anything else fails
int_map_to_constraint_map(m) ==
    IF \A f \in DOMAIN m : m[f] \in {-1, 0, 1}
        THEN Ok([f \in DOMAIN m |->
                    CASE m[f] = -1 -> "Constraint::Negative"
                      [] m[f] = 1 -> "Constraint::Positive"
                      [] m[f] = 0 -> "Constraint::Unconstrained"])
        ELSE Err("ValueError")

\* get_params: Constraint -> i8
ConstraintToInt(c) ==
    CASE c = "Constraint::Negative" -> -1
      [] c = "Constraint::Positive" -> 1
      [] c = "Constraint::Unconstrained" -> 0

----------------------------------------------------------------------------
(* The crate's MultiOutputBooster *)

CfgFields ==
    {"objective", "num_threads", "monotone_constraints",
     "force_children_to_bound_parent", "missing", "allow_missing_splits",
     "create_missing_branch", "terminate_missing_features",
     "missing_node_treatment", "log_iterations"}

\* The configuration a collection holds
Cfg(c) == [f \in CfgFields |-> c[f]]

\* An unfitted single-output booster under configuration cfg
NewBooster(cfg) == [cfg |-> cfg, base_score |-> 0, trees |-> 0]

\* MultiOutputBooster::default()
CrateDefault ==
    LET cfg == [f \in CfgFields |->
                  CASE f = "objective" -> "Objective::LogLoss"
                    [] f = "num_threads" -> None
                    [] f = "monotone_constraints" -> None
                    [] f = "force_children_to_bound_parent" -> FALSE
                    [] f = "missing" -> "NaN"
                    [] f = "allow_missing_splits" -> TRUE
                    [] f = "create_missing_branch" -> FALSE
                    [] f = "terminate_missing_features" -> {}
                    [] f = "missing_node_treatment" -> "MissingNodeTreatment::AssignToParent"
                    [] f = "log_iterations" -> 0]
    IN  [f \in CfgFields \cup {"n_boosters", "boosters", "metadata"} |->
            CASE f = "n_boosters" -> 1
              [] f = "boosters" -> <<NewBooster(cfg)>>
              [] f = "metadata" -> <<>>
              [] OTHER -> cfg[f]]

\* A mutant of CrateSet: the field is set on the collection only
CrateSet_NoPropagation(c, field, value) ==
    [c EXCEPT ![field] = value]

\* Crate set_<field>: set the field and re-apply it to every booster
CrateSet(c, field, value) ==
    [c EXCEPT ![field] = value,
              !["boosters"] = [i \in DOMAIN c["boosters"] |->
                                 [c["boosters"][i] EXCEPT !.cfg[field] = value]]]

\* Crate set_n_boosters: build n boosters, each under the collection's configuration
CrateSetNBoosters(c, n) ==
    [c EXCEPT !["n_boosters"] = n,
              !["boosters"] = [i \in 1..n |-> NewBooster(Cfg(c))]]

----------------------------------------------------------------------------
(* Outcome of a call *)

Returned(op, args, v) == [op |-> op, args |-> args, ok |-> TRUE, val |-> v]
Raised(op, args, exc, cause) ==
    [op |-> op, args |-> args, ok |-> FALSE, val |-> [exc |-> exc, cause |-> cause]]

----------------------------------------------------------------------------
(* MultiOutputBooster::new *)

New(n_boosters, objective, num_threads, monotone_constraints, force_children_to_bound_parent, missing, allow_missing_splits, create_missing_branch, terminate_missing_features, missing_node_treatment, log_iterations) ==
    LET objective_ == from_str_Objective(objective)
        missing_node_treatment_ == from_str_MissingNodeTreatment(missing_node_treatment)
        dict_ == ExtractConstraintDict(monotone_constraints)
        monotone_constraints_ ==
            IF dict_.ok THEN int_map_to_constraint_map(dict_.val) ELSE dict_
    IN  IF ~dict_.ok \/ ~objective_.ok \/ ~missing_node_treatment_.ok
           \/ ~monotone_constraints_.ok
            THEN Err("ValueError")
            ELSE LET b1 == CrateSet(CrateDefault, "objective", objective_.val)
                     b2 == CrateSet(b1, "num_threads", num_threads)
                     b3 == CrateSet(b2, "monotone_constraints",
                                    Some(monotone_constraints_.val))
                     b4 == CrateSet(b3, "force_children_to_bound_parent",
                                    force_children_to_bound_parent)
                     b5 == CrateSet(b4, "missing", missing)
                     b6 == CrateSet(b5, "allow_missing_splits", allow_missing_splits)
                     b7 == CrateSet(b6, "create_missing_branch", create_missing_branch)
                     b8 == CrateSet(b7, "terminate_missing_features",
                                    terminate_missing_features)
                     b9 == CrateSet(b8, "missing_node_treatment",
                                    missing_node_treatment_.val)
                     b10 == CrateSet(b9, "log_iterations", log_iterations)
                 IN  Ok(CrateSetNBoosters(b10, n_boosters))

\* The collections a caller constructs
Constructed ==
    {New(n, "LogLoss", None, <<>>, FALSE, "NaN", TRUE, FALSE, {}, "AssignToParent", 0) :
        n \in 1..MaxOutputs}

\* The collections a caller constructs under other configurations
ConstructedAny ==
    {New(n, o, None, m, FALSE, "0.0", TRUE, FALSE, {}, "AverageLeafWeight", 1) :
        n \in 1..MaxOutputs, o \in ObjectiveInputs, m \in ConstraintInputs}

\* The file system holds one file that is no saved collection
InitFiles == [p \in {"junk.bin"} |-> [format |-> "junk"]]

Init ==
    /\ \E r \in Constructed : r.ok /\ booster = r.val
    /\ files = InitFiles
    /\ last = Returned("new", <<>>, Unit)
    /\ calls = 0

InitAny ==
    /\ \E r \in ConstructedAny : r.ok /\ booster = r.val
    /\ files = InitFiles
    /\ last = Returned("new", <<>>, Unit)
    /\ calls = 0

----------------------------------------------------------------------------
(* The setters *)

set_n_boosters(value) ==
    /\ booster' = CrateSetNBoosters(booster, value)
    /\ last' = Returned("set_n_boosters", <<value>>, Unit)
    /\ UNCHANGED files

\* A mutant of set_objective: an unrecognized name falls back to the default
set_objective_Defaulting(value) ==
    LET objective_ == from_str_Objective(value)
    IN  /\ booster' = CrateSet(booster, "objective",
                               IF objective_.ok THEN objective_.val
                                                ELSE "Objective::LogLoss")
        /\ last' = Returned("set_objective", <<value>>, Unit)
        /\ UNCHANGED files

set_objective(value) ==
    LET objective_ == from_str_Objective(value)
    IN  /\ IF ~objective_.ok
              THEN /\ last' = Raised("set_objective", <<value>>, "ValueError",
                                     objective_.err)
                   /\ UNCHANGED booster
              ELSE /\ booster' = CrateSet(booster, "objective", objective_.val)
                   /\ last' = Returned("set_objective", <<value>>, Unit)
        /\ UNCHANGED files

set_num_threads(value) ==
    /\ booster' = CrateSet(booster, "num_threads", value)
    /\ last' = Returned("set_num_threads", <<value>>, Unit)
    /\ UNCHANGED files

set_monotone_constraints(value) ==
    LET dict_ == ExtractConstraintDict(value)
        map == IF dict_.ok THEN int_map_to_constraint_map(dict_.val) ELSE dict_
    IN  /\ IF ~map.ok
              THEN /\ last' = Raised("set_monotone_constraints", <<value>>,
                                     map.err, "invalid constraint entry")
                   /\ UNCHANGED booster
              ELSE /\ booster' = CrateSet(booster, "monotone_constraints", Some(map.val))
                   /\ last' = Returned("set_monotone_constraints", <<value>>, Unit)
        /\ UNCHANGED files

set_force_children_to_bound_parent(value) ==
    /\ booster' = CrateSet(booster, "force_children_to_bound_parent", value)
    /\ last' = Returned("set_force_children_to_bound_parent", <<value>>, Unit)
    /\ UNCHANGED files

set_missing(value) ==
    /\ booster' = CrateSet(booster, "missing", value)
    /\ last' = Returned("set_missing", <<value>>, Unit)
    /\ UNCHANGED files

\* A mutant of set_allow_missing_splits: the value lands in the neighbouring field
set_allow_missing_splits_WrongField(value) ==
    /\ booster' = CrateSet(booster, "create_missing_branch", value)
    /\ last' = Returned("set_allow_missing_splits", <<value>>, Unit)
    /\ UNCHANGED files

set_allow_missing_splits(value) ==
    /\ booster' = CrateSet(booster, "allow_missing_splits", value)
    /\ last' = Returned("set_allow_missing_splits", <<value>>, Unit)
    /\ UNCHANGED files

set_create_missing_branch(value) ==
    /\ booster' = CrateSet(booster, "create_missing_branch", value)
    /\ last' = Returned("set_create_missing_branch", <<value>>, Unit)
    /\ UNCHANGED files

set_terminate_missing_features(value) ==
    /\ booster' = CrateSet(booster, "terminate_missing_features", value)
    /\ last' = Returned("set_terminate_missing_features", <<value>>, Unit)
    /\ UNCHANGED files

set_missing_node_treatment(value) ==
    LET missing_node_treatment_ == from_str_MissingNodeTreatment(value)
    IN  /\ IF ~missing_node_treatment_.ok
              THEN /\ last' = Raised("set_missing_node_treatment", <<value>>,
                                     "ValueError", missing_node_treatment_.err)
                   /\ UNCHANGED booster
              ELSE /\ booster' = CrateSet(booster, "missing_node_treatment",
                                          missing_node_treatment_.val)
                   /\ last' = Returned("set_missing_node_treatment", <<value>>, Unit)
        /\ UNCHANGED files

\* A mutant of set_log_iterations: the value is taken for the booster count
set_log_iterations_AsCount(value) ==
    /\ booster' = CrateSetNBoosters(booster, value)
    /\ last' = Returned("set_log_iterations", <<value>>, Unit)
    /\ UNCHANGED files

set_log_iterations(value) ==
    /\ booster' = CrateSet(booster, "log_iterations", value)
    /\ last' = Returned("set_log_iterations", <<value>>, Unit)
    /\ UNCHANGED files

----------------------------------------------------------------------------
(* get_params *)

GetParams(c) ==
    LET objective_ == to_string_Objective(c["objective"])
        missing_node_treatment_ ==
            to_string_MissingNodeTreatment(c["missing_node_treatment"])
        map == IF c["monotone_constraints"] = None
                  THEN <<>> ELSE c["monotone_constraints"][1]
        monotone_constraints_ == [f \in DOMAIN map |-> ConstraintToInt(map[f])]
    IN  [objective |-> objective_,
         num_threads |-> c["num_threads"],
         allow_missing_splits |-> c["allow_missing_splits"],
         monotone_constraints |-> monotone_constraints_,
         missing |-> c["missing"],
         create_missing_branch |-> c["create_missing_branch"],
         terminate_missing_features |-> c["terminate_missing_features"],
         missing_node_treatment |-> missing_node_treatment_,
         log_iterations |-> c["log_iterations"],
         force_children_to_bound_parent |-> c["force_children_to_bound_parent"]]

get_params ==
    /\ last' = Returned("get_params", <<>>, GetParams(booster))
    /\ UNCHANGED <<booster, files>>

----------------------------------------------------------------------------
(* Matrix and the single-output engine *)

RECURSIVE Flatten(_)
Flatten(ss) == IF ss = <<>> THEN <<>> ELSE Head(ss) \o Flatten(Tail(ss))

\* A mutant of Matrix_new: the buffer length is not checked
Matrix_new_Unchecked(data, rows, cols) ==
    Ok([data |-> data, rows |-> rows, cols |-> cols])

\* Matrix::new: a view of a flat buffer; the buffer holds rows * cols values
Matrix_new(data, rows, cols) ==
    IF Len(data) = rows * cols
        THEN Ok([data |-> data, rows |-> rows, cols |-> cols])
        ELSE Err([kind |-> "ShapeError", index |-> -1, cause |-> "buffer length"])

\* Value at (r, c), 0-based: buffer[r * C + c]; outside the buffer there is none
Matrix_get(m, r, c) ==
    IF r * m.cols + c + 1 \in DOMAIN m.data THEN m.data[r * m.cols + c + 1] ELSE 0

Matrix_get_col(m, c) == [r \in 1..m.rows |-> Matrix_get(m, r - 1, c)]
Matrix_get_row(m, r) == [c \in 1..m.cols |-> Matrix_get(m, r, c - 1)]

\* The engine's fit of one output: a first or resetting fit discards the prior
\* trees and takes its base score from the target; otherwise boosting continues
EngineFit(b, data, y, reset) ==
    IF reset = Some(TRUE) \/ b.trees = 0
        THEN [b EXCEPT !.base_score = IF y = <<>> THEN 0 ELSE y[1], !.trees = 1]
        ELSE [b EXCEPT !.trees = @ + 1]

\* The engine's prediction of one row by one booster
EnginePredictRow(b, row) == b.base_score + b.trees * (IF row = <<>> THEN 0 ELSE row[1])
EnginePredict(b, data) ==
    [r \in 1..data.rows |-> EnginePredictRow(b, Matrix_get_row(data, r - 1))]
EnginePredictProba(b, data) ==
    [r \in 1..data.rows |->
        IF EnginePredictRow(b, Matrix_get_row(data, r - 1)) > 1 THEN 1 ELSE 0]

\* Crate fit: outputs are fitted in index order, each on its own target column;
\* a failing output (fail_at, 0 for none) ends the call with an error naming it
CrateFit(c, data, y, reset, fail_at) ==
    IF y.rows # data.rows \/ y.cols # c["n_boosters"]
        THEN [booster |-> c,
              result |-> Err([kind |-> "ShapeError", index |-> -1, cause |-> "targets"])]
        ELSE [booster |->
                [c EXCEPT !["boosters"] =
                    [i \in DOMAIN c["boosters"] |->
                        IF fail_at = 0 \/ i < fail_at
                            THEN EngineFit(c["boosters"][i], data,
                                           Matrix_get_col(y, i - 1), reset)
                            ELSE c["boosters"][i]]],
              result |->
                IF fail_at = 0 THEN Ok(Unit)
                ELSE Err([kind |-> "FitError", index |-> fail_at - 1,
                          cause |-> "engine failure"])]

\* The per-output results concatenated by output index, whatever order they finish in
Assemble(results, order) ==
    Flatten([i \in 1..Len(results) |-> results[i]])

\* The outputs in index order
InOrder(c) == [i \in DOMAIN c["boosters"] |-> i]

\* The orders in which n workers may finish
Orders(n) ==
    {o \in [1..n -> 1..n] : \A i, j \in 1..n : o[i] = o[j] => i = j}

\* Crate predict: one result per output, run in parallel or in index order
CratePredict(c, data, parallel, order) ==
    LET results == [i \in DOMAIN c["boosters"] |-> EnginePredict(c["boosters"][i], data)]
    IN  IF parallel THEN Assemble(results, order)
                    ELSE Assemble(results, [i \in DOMAIN results |-> i])

CratePredictProba(c, data, parallel, order) ==
    LET results == [i \in DOMAIN c["boosters"] |->
                        EnginePredictProba(c["boosters"][i], data)]
    IN  IF parallel THEN Assemble(results, order)
                    ELSE Assemble(results, [i \in DOMAIN results |-> i])

----------------------------------------------------------------------------
(* base_score, number_of_trees *)

base_score ==
    /\ last' = Returned("base_score", <<>>,
                        [i \in DOMAIN booster["boosters"] |->
                            booster["boosters"][i].base_score])
    /\ UNCHANGED <<booster, files>>

number_of_trees ==
    /\ last' = Returned("number_of_trees", <<>>,
                        [i \in DOMAIN booster["boosters"] |->
                            booster["boosters"][i].trees])
    /\ UNCHANGED <<booster, files>>

----------------------------------------------------------------------------
(* fit *)

\* A mutant of FitOutcome: the crate's error is dropped
FitOutcome_Swallowed(args, result) ==
    Returned("fit", args, Unit)

\* What fit returns for the crate's result: Ok(()) or a ValueError of its message
FitOutcome(args, result) ==
    IF result.ok THEN Returned("fit", args, Unit)
                 ELSE Raised("fit", args, "ValueError", result.err)

fit(flat_data, rows, cols, y, reset, fail_at) ==
    LET args == [flat_data |-> flat_data, rows |-> rows, cols |-> cols,
                 y |-> y, reset |-> reset]
        data == Matrix_new(flat_data, rows, cols)
        y_data == Matrix_new(y, rows, booster["n_boosters"])
    IN  /\ reset = Some(TRUE)
           \/ \A i \in DOMAIN booster["boosters"] : booster["boosters"][i].trees < MaxTrees
        /\ fail_at <= booster["n_boosters"]
        /\ IF ~data.ok \/ ~y_data.ok
              THEN /\ last' = Raised("fit", args, "PanicException",
                                     IF ~data.ok THEN data.err ELSE y_data.err)
                   /\ UNCHANGED booster
              ELSE LET r == CrateFit(booster, data.val, y_data.val, reset, fail_at)
                   IN  /\ booster' = r.booster
                       /\ last' = FitOutcome(args, r.result)
        /\ UNCHANGED files

----------------------------------------------------------------------------
(* predict, predict_proba *)

\* A mutant of ParallelOrDefault: an omitted flag means sequential
ParallelOrDefault_False(parallel) ==
    IF parallel = None THEN FALSE ELSE parallel[1]

\* parallel.unwrap_or(true)
ParallelOrDefault(parallel) ==
    IF parallel = None THEN TRUE ELSE parallel[1]

\* A mutant of PredictData: rows and columns are passed in the wrong order
PredictData_Swapped(flat_data, rows, cols) ==
    Matrix_new(flat_data, cols, rows)

\* The matrix predict builds over the caller's buffer
PredictData(flat_data, rows, cols) ==
    Matrix_new(flat_data, rows, cols)

predict(flat_data, rows, cols, parallel, order) ==
    LET data == PredictData(flat_data, rows, cols)
        parallel_ == ParallelOrDefault(parallel)
        args == [flat_data |-> flat_data, rows |-> rows, cols |-> cols,
                 parallel |-> parallel, parallel_ |-> parallel_]
    IN  /\ order \in Orders(booster["n_boosters"])
        /\ IF ~data.ok
              THEN last' = Raised("predict", args, "PanicException", data.err)
              ELSE last' = Returned("predict", args,
                                    CratePredict(booster, data.val, parallel_, order))
        /\ UNCHANGED <<booster, files>>

predict_proba(flat_data, rows, cols, parallel, order) ==
    LET data == PredictData(flat_data, rows, cols)
        parallel_ == ParallelOrDefault(parallel)
        args == [flat_data |-> flat_data, rows |-> rows, cols |-> cols,
                 parallel |-> parallel, parallel_ |-> parallel_]
    IN  /\ order \in Orders(booster["n_boosters"])
        /\ IF ~data.ok
              THEN last' = Raised("predict_proba", args, "PanicException", data.err)
              ELSE last' = Returned("predict_proba", args,
                                    CratePredictProba(booster, data.val, parallel_, order))
        /\ UNCHANGED <<booster, files>>

----------------------------------------------------------------------------
(* Metadata *)

\* Crate insert_metadata: the key maps to the value, replacing what it mapped to
CrateInsertMetadata(c, key, value) ==
    [c EXCEPT !["metadata"] =
        [k \in DOMAIN c["metadata"] \cup {key} |->
            IF k = key THEN value ELSE c["metadata"][k]]]

\* Crate get_metadata: Some(value) or None
CrateGetMetadata(c, key) ==
    IF key \in DOMAIN c["metadata"] THEN Some(c["metadata"][key]) ELSE None

insert_metadata(key, value) ==
    /\ booster' = CrateInsertMetadata(booster, key, value)
    /\ last' = Returned("insert_metadata", <<key, value>>, Unit)
    /\ UNCHANGED files

\* A mutant of MetadataOutcome: an absent key yields the empty string
MetadataOutcome_Defaulting(key, found) ==
    Returned("get_metadata", <<key>>, IF found = None THEN "" ELSE found[1])

\* What get_metadata returns for the crate's Option: the value or a KeyError
MetadataOutcome(key, found) ==
    IF found = None
        THEN Raised("get_metadata", <<key>>, "KeyError",
                    "No value associated with provided key")
        ELSE Returned("get_metadata", <<key>>, found[1])

get_metadata(key) ==
    /\ last' = MetadataOutcome(key, CrateGetMetadata(booster, key))
    /\ UNCHANGED <<booster, files>>

----------------------------------------------------------------------------
(* Persistence *)

\* The persisted form of a configuration: enums by name, constraints by name
EncodeCfg(cfg) ==
    [f \in CfgFields |->
        CASE f = "objective" -> to_string_Objective(cfg[f])
          [] f = "missing_node_treatment" -> to_string_MissingNodeTreatment(cfg[f])
          [] f = "monotone_constraints" ->
                IF cfg[f] = None THEN None
                ELSE Some([k \in DOMAIN cfg[f][1] |-> ConstraintToInt(cfg[f][1][k])])
          [] OTHER -> cfg[f]]

DecodeCfg(doc) ==
    [f \in CfgFields |->
        CASE f = "objective" -> from_str_Objective(doc[f]).val
          [] f = "missing_node_treatment" -> from_str_MissingNodeTreatment(doc[f]).val
          [] f = "monotone_constraints" ->
                IF doc[f] = None THEN None
                ELSE Some(int_map_to_constraint_map(doc[f][1]).val)
          [] OTHER -> doc[f]]

\* A mutant of CrateSerialize: the metadata store is left out
CrateSerialize_NoMetadata(c, format) ==
    [format |-> format,
     configuration |-> EncodeCfg(Cfg(c)),
     boosters |-> [i \in DOMAIN c["boosters"] |->
                     [cfg |-> EncodeCfg(c["boosters"][i].cfg),
                      base_score |-> c["boosters"][i].base_score,
                      trees |-> c["boosters"][i].trees]],
     metadata |-> <<>>]

\* The persisted document: configuration, the boosters in order, the metadata
CrateSerialize(c, format) ==
    [format |-> format,
     configuration |-> EncodeCfg(Cfg(c)),
     boosters |-> [i \in DOMAIN c["boosters"] |->
                     [cfg |-> EncodeCfg(c["boosters"][i].cfg),
                      base_score |-> c["boosters"][i].base_score,
                      trees |-> c["boosters"][i].trees]],
     metadata |-> c["metadata"]]

\* The collection a document of the given format describes
CrateDeserialize(doc, format) ==
    IF doc.format # format
        THEN Err([kind |-> "DeserializeError", index |-> -1, cause |-> "malformed"])
        ELSE LET cfg == DecodeCfg(doc.configuration)
             IN  Ok([f \in CfgFields \cup {"n_boosters", "boosters", "metadata"} |->
                       CASE f = "n_boosters" -> Len(doc.boosters)
                         [] f = "boosters" ->
                               [i \in DOMAIN doc.boosters |->
                                   [cfg |-> DecodeCfg(doc.boosters[i].cfg),
                                    base_score |-> doc.boosters[i].base_score,
                                    trees |-> doc.boosters[i].trees]]
                         [] f = "metadata" -> doc.metadata
                         [] OTHER -> cfg[f]])

\* Paths of the file system: one in a writable directory, one in no directory
WritablePaths == {"model.bin"}
SavePaths == WritablePaths \cup {"/nodir/model.bin"}
LoadPaths == {"model.bin", "junk.bin", "absent.bin"}
JunkDoc == [format |-> "junk"]

\* Crate save_booster: the document is written at the path
CrateSave(c, fs, path) ==
    IF path \in WritablePaths
        THEN [result |-> Ok(Unit),
              files |-> [p \in DOMAIN fs \cup {path} |->
                            IF p = path THEN CrateSerialize(c, "bin") ELSE fs[p]]]
        ELSE [result |-> Err([kind |-> "IOError", index |-> -1, cause |-> "unwritable"]),
              files |-> fs]

\* Crate load_booster: the document at the path, read back
CrateLoad(fs, path) ==
    IF path \notin DOMAIN fs
        THEN Err([kind |-> "IOError", index |-> -1, cause |-> "unreadable"])
        ELSE CrateDeserialize(fs[path], "bin")

save_booster(path) ==
    LET r == CrateSave(booster, files, path)
    IN  /\ files' = r.files
        /\ last' = IF r.result.ok
                      THEN Returned("save_booster", <<path>>, Unit)
                      ELSE Raised("save_booster", <<path>>, "ValueError", r.result.err)
        /\ UNCHANGED booster

json_dump ==
    /\ last' = Returned("json_dump", <<>>, CrateSerialize(booster, "json"))
    /\ UNCHANGED <<booster, files>>

load_booster(path) ==
    LET r == CrateLoad(files, path)
    IN  /\ last' = IF r.ok
                      THEN Returned("load_booster", <<path>>, r.val)
                      ELSE Raised("load_booster", <<path>>, "ValueError", r.err)
        /\ UNCHANGED <<booster, files>>

\* A mutant of from_json: the string is taken for a path
from_json_AsPath(json_str) ==
    /\ last' = Raised("from_json", <<json_str>>, "ValueError",
                      [kind |-> "IOError", index |-> -1, cause |-> "unreadable"])
    /\ UNCHANGED <<booster, files>>

from_json(json_str) ==
    LET r == CrateDeserialize(json_str, "json")
    IN  /\ last' = IF r.ok
                      THEN Returned("from_json", <<json_str>>, r.val)
                      ELSE Raised("from_json", <<json_str>>, "ValueError", r.err)
        /\ UNCHANGED <<booster, files>>

----------------------------------------------------------------------------
(* Callers *)

\* Buffers a caller passes: features 0, 1, ... and targets whose column j holds j
Ramp(n) == [i \in 1..n |-> i - 1]
TargetBuffer(rows, k) == [p \in 1..(rows * k) |-> ((p - 1) % k) + 1]

ResetInputs == {None, Some(TRUE), Some(FALSE)}
ParallelInputs == {None, Some(TRUE), Some(FALSE)}
MetaKeys == {"k"}
MetaValues == {"v", "w"}
LookupKeys == MetaKeys \cup {"missing_key"}

\* A caller without a budget of calls, and one with
Idle == UNCHANGED calls
Tick == calls < MaxCalls /\ calls' = calls + 1

\* A caller that configures
NextConfig ==
    \/ \E v \in 0..MaxOutputs : set_n_boosters(v) /\ Idle
    \/ \E v \in ObjectiveInputs : set_objective(v) /\ Idle
    \/ \E v \in ThreadInputs : set_num_threads(v) /\ Idle
    \/ \E v \in ConstraintInputs : set_monotone_constraints(v) /\ Idle
    \/ \E v \in BOOLEAN : set_force_children_to_bound_parent(v) /\ Idle
    \/ \E v \in MissingInputs : set_missing(v) /\ Idle
    \/ \E v \in BOOLEAN : set_allow_missing_splits(v) /\ Idle
    \/ \E v \in BOOLEAN : set_create_missing_branch(v) /\ Idle
    \/ \E v \in FeatureSetInputs : set_terminate_missing_features(v) /\ Idle
    \/ \E v \in TreatmentInputs : set_missing_node_treatment(v) /\ Idle
    \/ \E v \in LogInputs : set_log_iterations(v) /\ Idle
    \/ get_params /\ Idle

SpecConfig == Init /\ [][NextConfig]_vars

\* A caller that fits and predicts
NextFit ==
    \/ \E rows \in 1..MaxRows, k \in 0..(MaxOutputs + 1), reset \in ResetInputs,
          fail_at \in 0..MaxOutputs :
            fit(Ramp(rows), rows, 1, TargetBuffer(rows, k), reset, fail_at) /\ Idle
    \/ \E rows \in 1..MaxRows, k \in 1..MaxOutputs :
            fit(Ramp(rows + 1), rows, 1, TargetBuffer(rows, k), None, 0) /\ Idle
    \/ \E rows \in 1..MaxRows, len \in 1..(MaxRows + 1), parallel \in ParallelInputs,
          order \in Orders(booster["n_boosters"]) :
            predict(Ramp(len), rows, 1, parallel, order) /\ Idle
    \/ \E rows \in 1..MaxRows, len \in 1..(MaxRows + 1), parallel \in ParallelInputs,
          order \in Orders(booster["n_boosters"]) :
            predict_proba(Ramp(len), rows, 1, parallel, order) /\ Idle
    \/ base_score /\ Idle
    \/ number_of_trees /\ Idle

SpecFit == Init /\ [][NextFit]_vars

\* The documents a caller passes to from_json: the one json_dump just returned,
\* or one that is no dump
JsonInputs ==
    (IF last.op = "json_dump" /\ last.ok THEN {last.val} ELSE {}) \cup {JunkDoc}

\* A caller that fits, annotates, saves and loads
NextPersist ==
    \/ \E reset \in {None, Some(TRUE)} :
            fit(Ramp(MaxRows), MaxRows, 1,
                TargetBuffer(MaxRows, booster["n_boosters"]), reset, 0) /\ Idle
    \/ \E key \in MetaKeys, value \in MetaValues : insert_metadata(key, value) /\ Idle
    \/ \E key \in LookupKeys : get_metadata(key) /\ Idle
    \/ \E path \in SavePaths : save_booster(path) /\ Idle
    \/ \E path \in LoadPaths : load_booster(path) /\ Idle
    \/ json_dump /\ Idle
    \/ \E json_str \in JsonInputs : from_json(json_str) /\ Idle

SpecPersist == InitAny /\ [][NextPersist]_vars

\* A caller that uses every operation, within a budget of calls
Next ==
    \/ \E v \in 0..MaxOutputs : set_n_boosters(v) /\ Tick
    \/ \E v \in ObjectiveInputs : set_objective(v) /\ Tick
    \/ \E v \in ThreadInputs : set_num_threads(v) /\ Tick
    \/ \E v \in ConstraintInputs : set_monotone_constraints(v) /\ Tick
    \/ \E v \in BOOLEAN : set_force_children_to_bound_parent(v) /\ Tick
    \/ \E v \in MissingInputs : set_missing(v) /\ Tick
    \/ \E v \in BOOLEAN : set_allow_missing_splits(v) /\ Tick
    \/ \E v \in BOOLEAN : set_create_missing_branch(v) /\ Tick
    \/ \E v \in FeatureSetInputs : set_terminate_missing_features(v) /\ Tick
    \/ \E v \in TreatmentInputs : set_missing_node_treatment(v) /\ Tick
    \/ \E v \in LogInputs : set_log_iterations(v) /\ Tick
    \/ get_params /\ Tick
    \/ \E k \in {1, booster["n_boosters"]}, fail_at \in {0, booster["n_boosters"]} :
            fit(Ramp(MaxRows), MaxRows, 1, TargetBuffer(MaxRows, k), None, fail_at)
            /\ Tick
    \/ predict(Ramp(MaxRows), MaxRows, 1, None, InOrder(booster)) /\ Tick
    \/ predict_proba(Ramp(MaxRows), MaxRows, 1, None, InOrder(booster)) /\ Tick
    \/ base_score /\ Tick
    \/ number_of_trees /\ Tick
    \/ \E key \in MetaKeys, value \in MetaValues : insert_metadata(key, value) /\ Tick
    \/ \E key \in LookupKeys : get_metadata(key) /\ Tick
    \/ \E path \in SavePaths : save_booster(path) /\ Tick
    \/ \E path \in LoadPaths : load_booster(path) /\ Tick
    \/ json_dump /\ Tick
    \/ \E json_str \in JsonInputs : from_json(json_str) /\ Tick

Spec == Init /\ [][Next]_vars

----------------------------------------------------------------------------
(* Properties *)

SetterOps ==
    {"set_n_boosters", "set_objective", "set_num_threads", "set_monotone_constraints",
     "set_force_children_to_bound_parent", "set_missing", "set_allow_missing_splits",
     "set_create_missing_branch", "set_terminate_missing_features",
     "set_missing_node_treatment", "set_log_iterations"}

ReaderOps ==
    {"predict", "predict_proba", "get_params", "get_metadata", "save_booster",
     "json_dump"}

\* The configuration field a setter names
FieldOf(op) ==
    CASE op = "set_n_boosters" -> "n_boosters"
      [] op = "set_objective" -> "objective"
      [] op = "set_num_threads" -> "num_threads"
      [] op = "set_monotone_constraints" -> "monotone_constraints"
      [] op = "set_force_children_to_bound_parent" -> "force_children_to_bound_parent"
      [] op = "set_missing" -> "missing"
      [] op = "set_allow_missing_splits" -> "allow_missing_splits"
      [] op = "set_create_missing_branch" -> "create_missing_branch"
      [] op = "set_terminate_missing_features" -> "terminate_missing_features"
      [] op = "set_missing_node_treatment" -> "missing_node_treatment"
      [] op = "set_log_iterations" -> "log_iterations"

\* A constraint dict with a key that is no feature index or a value that is no constraint
Malformed(d) == \E k \in DOMAIN d : k < 0 \/ d[k] \notin {-1, 0, 1}

\* The fitted state of every booster: its trees and its base score
Fitted(c) ==
    [i \in DOMAIN c["boosters"] |->
        <<c["boosters"][i].trees, c["boosters"][i].base_score>>]

\* C1: a setter whose value fails validation reports an error, and leaves the
\* collection, every booster in it and what get_params() returns as they were.
C1_FailedSetterChangesNothing ==
    [][/\ (last'.op = "set_objective" /\ last'.args[1] \notin ObjectiveNames)
            => ~last'.ok
       /\ (last'.op = "set_missing_node_treatment" /\ last'.args[1] \notin TreatmentNames)
            => ~last'.ok
       /\ (last'.op = "set_monotone_constraints" /\ Malformed(last'.args[1]))
            => ~last'.ok
       /\ (last'.op \in SetterOps /\ ~last'.ok)
            => /\ booster' = booster
               /\ GetParams(booster') = GetParams(booster)]_steps

\* C1 witness: a malformed constraint dict is refused on a collection whose
\* configuration was changed before
C1_Witness ==
    /\ last.op = "set_monotone_constraints"
    /\ ~last.ok
    /\ Malformed(last.args[1])
    /\ booster["objective"] = "Objective::SquaredLoss"
    /\ booster["n_boosters"] >= 2

\* C5: every booster of the collection holds the collection's configuration.
C5_BoostersShareConfiguration ==
    \A i \in DOMAIN booster["boosters"] : booster["boosters"][i].cfg = Cfg(booster)

\* C5 witness: several boosters, a changed configuration, and a refused setter
C5_Witness ==
    /\ booster["n_boosters"] >= 2
    /\ booster["missing"] = "0.0"
    /\ booster["log_iterations"] = 1
    /\ last.op = "set_missing_node_treatment"
    /\ ~last.ok

\* The matrices a fit call builds from its arguments, for a collection of n outputs
FitData(a) == [data |-> a.flat_data, rows |-> a.rows, cols |-> a.cols]
FitTargets(a, n) == [data |-> a.y, rows |-> a.rows, cols |-> n]

\* Booster i of collection c as the engine leaves it after training on the call's
\* column i
NewlyFitted(c, a, i) ==
    EngineFit(c["boosters"][i], FitData(a),
              Matrix_get_col(FitTargets(a, c["n_boosters"]), i - 1), a.reset)

\* C2: fit with a target buffer that does not hold rows * N values fails with a
\* ShapeError and leaves the collection, every booster's trees and base score
\* included, as it was.
C2_TargetShapeMismatchRefused ==
    [][(last'.op = "fit" /\ Len(last'.args.y) # last'.args.rows * booster["n_boosters"])
        => /\ ~last'.ok
           /\ last'.val.cause.kind = "ShapeError"
           /\ Fitted(booster') = Fitted(booster)
           /\ booster' = booster]_steps

\* C2 witness: a fitted collection refuses targets of a wrong column count
C2_Witness ==
    /\ last.op = "fit"
    /\ ~last.ok
    /\ Len(last.args.y) # last.args.rows * booster["n_boosters"]
    /\ Len(last.args.y) > 0
    /\ \A i \in DOMAIN booster["boosters"] : booster["boosters"][i].trees > 0

\* C4: when fitting output i fails, fit returns an error that names i and carries
\* the cause, the outputs before i hold their newly fitted state, fitted once; and
\* fit returns success only when every output was fitted.
C4_FitFailureSurfaced ==
    [][last'.op = "fit" =>
        /\ last'.ok =>
              \A j \in DOMAIN booster["boosters"] :
                  booster'["boosters"][j] = NewlyFitted(booster, last'.args, j)
        /\ (~last'.ok /\ last'.val.cause.kind = "FitError") =>
              LET i == last'.val.cause.index + 1
              IN  /\ i \in DOMAIN booster["boosters"]
                  /\ last'.val.exc = "ValueError"
                  /\ last'.val.cause.cause = "engine failure"
                  /\ \A j \in DOMAIN booster["boosters"] :
                        j < i => booster'["boosters"][j]
                                    = NewlyFitted(booster, last'.args, j)]_steps

\* C4 witness: the second output fails after the first was fitted
C4_Witness ==
    /\ last.op = "fit"
    /\ ~last.ok
    /\ last.val.cause.kind = "FitError"
    /\ last.val.cause.index = 1
    /\ booster["boosters"][1].trees = 1
    /\ booster["boosters"][2].trees = 0

\* The matrix a predict call is about
PredictMatrix(a) == [data |-> a.flat_data, rows |-> a.rows, cols |-> a.cols]

C7_OutputMajorLayout ==
    (last.op = "predict" /\ last.ok) =>
        LET R == last.args.rows
            N == booster["n_boosters"]
        IN  /\ Len(last.val) = R * N
            /\ \A i \in 0..(N - 1), r \in 0..(R - 1) :
                  last.val[i * R + r + 1] =
                      EnginePredictRow(booster["boosters"][i + 1],
                                       Matrix_get_row(PredictMatrix(last.args), r))

\* C7 witness: two rows by two fitted boosters, four different predictions
C7_Witness ==
    /\ last.op = "predict"
    /\ last.ok
    /\ last.args.rows = 2
    /\ booster["n_boosters"] = 2
    /\ Len(last.val) = 4
    /\ Cardinality({last.val[p] : p \in 1..4}) = 4

\* Feature matrices to compare two collections' predictions on
ProbeMatrices ==
    {[data |-> Ramp(rows), rows |-> rows, cols |-> 1] : rows \in 1..MaxRows}

\* Two collections a caller cannot tell apart: the same predictions on every
\* input in either mode, the same get_params(), the same metadata store
Indistinguishable(c, d) ==
    /\ GetParams(c) = GetParams(d)
    /\ c["metadata"] = d["metadata"]
    /\ \A X \in ProbeMatrices, p \in BOOLEAN :
          /\ CratePredict(c, X, p, InOrder(c)) = CratePredict(d, X, p, InOrder(d))
          /\ CratePredictProba(c, X, p, InOrder(c))
                = CratePredictProba(d, X, p, InOrder(d))

C9_MetadataStore ==
    /\ [](last.op = "new" => DOMAIN booster["metadata"] = {})
    /\ [][/\ last'.op = "insert_metadata" =>
                LET key == last'.args[1]
                    value == last'.args[2]
                IN  /\ last'.ok
                    /\ DOMAIN booster'["metadata"] = DOMAIN booster["metadata"] \cup {key}
                    /\ booster'["metadata"][key] = value
                    /\ \A k \in DOMAIN booster["metadata"] \ {key} :
                          booster'["metadata"][k] = booster["metadata"][k]
          /\ last'.op = "get_metadata" =>
                LET key == last'.args[1]
                IN  IF key \in DOMAIN booster["metadata"]
                        THEN last'.ok /\ last'.val = booster["metadata"][key]
                        ELSE ~last'.ok /\ last'.val.exc = "KeyError"
          /\ last'.op # "insert_metadata" =>
                booster'["metadata"] = booster["metadata"]]_steps

\* C9 witness: a key never inserted is looked up in a store whose other key was
\* overwritten
C9_Witness ==
    /\ last.op = "get_metadata"
    /\ ~last.ok
    /\ last.args[1] = "missing_key"
    /\ DOMAIN booster["metadata"] = {"k"}
    /\ booster["metadata"]["k"] = "w"

\* C3 as stated: no operation changes the number of boosters.
C3_CountNeverChanges ==
    [][/\ Len(booster'["boosters"]) = Len(booster["boosters"])
       /\ booster'["n_boosters"] = booster["n_boosters"]]_steps

\* C3 amended: the collection owns exactly n_boosters boosters, and that number
\* changes by set_n_boosters alone.
C3_CountChangesBySetterOnly ==
    /\ [](Len(booster["boosters"]) = booster["n_boosters"])
    /\ [][last'.op # "set_n_boosters" =>
            /\ Len(booster'["boosters"]) = Len(booster["boosters"])
            /\ booster'["n_boosters"] = booster["n_boosters"]]_steps

\* C3 witness: the collection was resized to no booster at all and used after
C3_Witness ==
    /\ booster["n_boosters"] = 0
    /\ Len(booster["boosters"]) = 0
    /\ last.op = "predict"
    /\ last.ok

\* What a setter named op leaves alone: the other fields of get_params(), the
\* metadata store, every booster's trees and base score
FrameOf(op) ==
    /\ \A f \in DOMAIN GetParams(booster) \ {FieldOf(op)} :
          GetParams(booster')[f] = GetParams(booster)[f]
    /\ booster'["metadata"] = booster["metadata"]
    /\ Fitted(booster') = Fitted(booster)

\* C10 as stated: every successful setter changes its field alone, and the
\* reading operations change nothing.
C10_EverySetterFramed ==
    [][/\ (last'.op \in SetterOps /\ last'.ok) => FrameOf(last'.op)
       /\ last'.op \in ReaderOps => booster' = booster]_steps

\* C10 amended: every successful setter but set_n_boosters changes its field
\* alone, and the reading operations change nothing.
C10_SettersFramedButCount ==
    [][/\ (last'.op \in SetterOps \ {"set_n_boosters"} /\ last'.ok) => FrameOf(last'.op)
       /\ last'.op \in ReaderOps => booster' = booster]_steps

\* C10 witness: a setter changed its field on a fitted, annotated collection
C10_Witness ==
    /\ last.op = "set_allow_missing_splits"
    /\ last.ok
    /\ booster["allow_missing_splits"] = FALSE
    /\ \E i \in DOMAIN booster["boosters"] : booster["boosters"][i].trees > 0
    /\ DOMAIN booster["metadata"] # {}

====
